---- MODULE Spec2Model ----
(***************************************************************************)
(* Model of the background batch-ingestion job controllers of             *)
(* job_manager.py: PriceBatchJob (single credential) and                  *)
(* DualApiSequentialJob (two alternating credentials).                    *)
(*                                                                         *)
(* One job instance is modelled; `variant` says which class it is.  The   *)
(* threads are the HTTP request threads that call start/pause/resume/     *)
(* stop/status (Callers) and the background threads that start() creates  *)
(* (Loops).  threading.Lock is not reentrant: `lock` is the thread that    *)
(* holds it, and a thread that asks for the lock it already holds waits   *)
(* forever.  A `with self._lock:` block that makes no blocking call is    *)
(* one atomic step guarded by the lock being free.  self._pause_event is   *)
(* set and cleared next to `paused` and read nowhere, so it is not a       *)
(* variable of the model.  pause(), resume() and status() are one step     *)
(* each: the lock block and the status() snapshot that follows it change   *)
(* nothing between them.  start() and stop() are modelled block by block.  *)
(***************************************************************************)
EXTENDS Integers, FiniteSets, Sequences, TLC

\* ---- bounds of the model -------------------------------------------------
\* largest catalog id, and largest batch_size argument, of the runs of one loop
MaxItemId == 3
MaxBatchArg == 2
\* largest catalog id of the runs with two request threads and two loops
ConcItemId == 1
\* most blanks on one side of a platform name, and longest free-form name
MaxPad == 1
MaxNameLen == 3
\* largest max_id and completed_count that status() is called with on its own
MaxCount == 50

\* ---- program constants ---------------------------------------------------
\* the defaults of the constructors' batch_size and interval_sec arguments
DefaultBatchSize == 100
SingleDefaultInterval == 60
DualDefaultInterval == 30

Callers == {"c1", "c2"}
LoopOrder == <<"t1", "t2">>
Loops == {LoopOrder[i] : i \in 1..Len(LoopOrder)}
Threads == Callers \cup Loops
NoThread == "nobody"
None == "None"
\* the value of last_processed_range when it is None
NoRange == <<>>

ItemIds == 1..MaxItemId
\* a catalog row: absent, present with an empty market_hash_name, or named
RowKinds == {"absent", "blank", "named"}

VARIABLES
  variant,              \* "single" (PriceBatchJob) or "dual" (DualApiSequentialJob)
  catalog,              \* the items table: id -> row kind
  api_key,              \* client number -> whether that client has an API key
  start_error,          \* request thread -> "error" of its latest start() result
  resp,                 \* the API response given to the normaliser
  prices,               \* the rows of the prices table
  platforms,            \* the rows of the platforms table: <<item id, name>>
  outcome,              \* of the write block: "pending", "committed", "raised" (by
                        \* a bad entry) or "failed" (by the database)
  call_arg,             \* the argument of a function that is called on its own
  call_ret,             \* the results of its calls, the first call first
  running, paused, max_id, completed_count, current_start_id,
  batch_size, interval_sec, last_processed_range, next_run_ts,
  next_client_id, last_error,
  thread,               \* self._thread
  stop_event,
  lock,                 \* holder of self._lock, or NoThread
  pc,                   \* thread -> position in its code
  loc                   \* thread -> its local variables

\* self.default_interval
DefaultInterval ==
  IF variant = "dual" THEN DualDefaultInterval ELSE SingleDefaultInterval

\* what the response normaliser, the startup migration and the functions that
\* are called on their own work on
store == <<resp, prices, platforms, outcome, call_arg, call_ret>>

vars == <<variant, catalog, store, api_key, start_error, running, paused, max_id, completed_count,
          current_start_id, batch_size, interval_sec, last_processed_range,
          next_run_ts, next_client_id, last_error, thread, stop_event,
          lock, pc, loc>>

jobState == <<running, paused, max_id, completed_count, current_start_id,
              batch_size, interval_sec, last_processed_range, next_run_ts,
              next_client_id, last_error>>

NoLoc == [start_id |-> 0, end_id |-> 0, client_id |-> 0, t |-> None]

Max(a, b) == IF a >= b THEN a ELSE b
Min(a, b) == IF a <= b THEN a ELSE b

\* sess.query(func.max(Item.id)).scalar() or 0
CatalogMaxId ==
  IF \A i \in ItemIds : catalog[i] = "absent" THEN 0
  ELSE CHOOSE i \in ItemIds : catalog[i] # "absent"
                              /\ \A j \in ItemIds : catalog[j] # "absent" => j <= i

\* Item rows with start_id <= id <= end_id
ItemsIn(s, e) == {i \in ItemIds : s <= i /\ i <= e /\ catalog[i] # "absent"}
\* [it.market_hash_name for it in items if it.market_hash_name]
NamesIn(s, e) == {i \in ItemsIn(s, e) : catalog[i] = "named"}

IsAlive(t) == t \in Loops /\ pc[t] # "dead"

\* ---- JSON values, as the normaliser sees them ------------------------------
\* A value is a record with its Python type and its content.  A string is a
\* sequence of characters.  An integer is not negative and is written in
\* base 1000, most significant digit first, without leading zeros (0 is the
\* empty sequence), so that 10^12 and the products by 1000 are exact.  A
\* dict is a function from its keys to values.
JNull == [type |-> "null", val |-> <<>>]
JStr(chars) == [type |-> "str", val |-> chars]
JNum(digits) == [type |-> "num", val |-> digits]
JList(elems) == [type |-> "list", val |-> elems]
JDict(fields) == [type |-> "dict", val |-> fields]

\* bool(v): None, 0, "", [] and {} are false
Truthy(v) ==
  CASE v.type = "null" -> FALSE
    [] v.type = "dict" -> DOMAIN v.val # {}
    [] OTHER -> v.val # <<>>

\* d.get(k) of a dict d
Get(d, k) == IF k \in DOMAIN d.val THEN d.val[k] ELSE JNull

\* `a or b`
Or(a, b) == IF Truthy(a) THEN a ELSE b

\* str.strip(): blanks are dropped at both ends
RECURSIVE LStrip(_)
LStrip(chars) ==
  IF chars # <<>> /\ Head(chars) = " " THEN LStrip(Tail(chars)) ELSE chars

RECURSIVE RStrip(_)
RStrip(chars) ==
  IF chars # <<>> /\ chars[Len(chars)] = " "
  THEN RStrip(SubSeq(chars, 1, Len(chars) - 1)) ELSE chars

Strip(chars) == RStrip(LStrip(chars))

\* str.upper() on the letters the model's names are written with
UpperOf ==
  [c |-> "C", h |-> "H", a |-> "A", l |-> "L", o |-> "O", g |-> "G", m |-> "M",
   e |-> "E", s |-> "S", k |-> "K", i |-> "I", n |-> "N", x |-> "X"]
Upper(chars) ==
  [i \in 1..Len(chars) |->
     IF chars[i] \in DOMAIN UpperOf THEN UpperOf[chars[i]] ELSE chars[i]]

\* ---- integers in base 1000 -------------------------------------------------
\* 1000000000000 (line 231, and db.py line 187)
TenToTwelve == <<1, 0, 0, 0, 0>>

\* a < b
RECURSIVE DigitsLess(_, _)
DigitsLess(a, b) ==
  IF a = <<>> \/ b = <<>> THEN FALSE
  ELSE IF Head(a) # Head(b) THEN Head(a) < Head(b)
  ELSE DigitsLess(Tail(a), Tail(b))

LessThan(a, b) == Len(a) < Len(b) \/ (Len(a) = Len(b) /\ DigitsLess(a, b))

\* a * 1000 (line 232): one more digit of base 1000
TimesThousand(a) == IF a = <<>> THEN <<>> ELSE Append(a, 0)

\* int(s) of a string of decimal digits: the digits in groups of three from
\* the right, each group one digit of base 1000
DecimalDigits == <<"0", "1", "2", "3", "4", "5", "6", "7", "8", "9">>
IsDecimal(chars) ==
  chars # <<>> /\ \A i \in 1..Len(chars) :
                    \E d \in 1..Len(DecimalDigits) : DecimalDigits[d] = chars[i]
DigitOf(ch) == (CHOOSE d \in 1..Len(DecimalDigits) : DecimalDigits[d] = ch) - 1

RECURSIVE GroupsOf(_)
GroupsOf(chars) ==
  IF chars = <<>> THEN <<>>
  ELSE LET n == Len(chars)
           k == IF n % 3 = 0 THEN 3 ELSE n % 3
           g == SubSeq(chars, 1, k)
           v == IF k = 1 THEN DigitOf(g[1])
                ELSE IF k = 2 THEN 10 * DigitOf(g[1]) + DigitOf(g[2])
                ELSE 100 * DigitOf(g[1]) + 10 * DigitOf(g[2]) + DigitOf(g[3])
       IN <<v>> \o GroupsOf(SubSeq(chars, k + 1, n))

RECURSIVE DropZeros(_)
DropZeros(digits) ==
  IF digits # <<>> /\ Head(digits) = 0 THEN DropZeros(Tail(digits)) ELSE digits

ParseDecimal(chars) == DropZeros(GroupsOf(chars))

\* _to_int(x), lines 26-30: an int is itself, a string is parsed after
\* strip(), and int() of anything else raises, which gives None
to_int(x) ==
  CASE x.type = "num" -> x
    [] x.type = "str" /\ IsDecimal(Strip(x.val)) -> JNum(ParseDecimal(Strip(x.val)))
    [] OTHER -> JNull

\* _to_float(x), lines 19-23: a number is itself, a string is parsed after
\* strip(), and float() of anything else raises, which gives None.  The
\* numbers of the model are whole, so that their floats have the same value.
to_float(x) ==
  CASE x.type = "num" -> x
    [] x.type = "str" /\ IsDecimal(Strip(x.val)) -> JNum(ParseDecimal(Strip(x.val)))
    [] OTHER -> JNull

\* ---- the response normaliser, lines 199-232 / 469-501 -----------------------
\* A row keeps the name, the platform, the prices, the counts and the update
\* time; the platform's item id and the two foreign keys, which need the
\* items and platforms tables, are left out.

\* `(name or "")` of line 11 is not a string: .strip() raises
CanonicalRaises(name) == Truthy(name) /\ name.type # "str"

\* canonical_platform_name with the aliases compared before .upper()
canonical_platform_nameCaseSensitive(name) ==
  LET q == Strip(IF Truthy(name) THEN name.val ELSE <<>>)
      p == Upper(q)
  IN IF q = <<"C", "5">> THEN <<"C", "5", "G", "A", "M", "E">>
     ELSE IF q = <<"H", "A", "L", "O">>
     THEN <<"H", "A", "L", "O", "S", "K", "I", "N", "S">>
     ELSE p

\* canonical_platform_name(name), lines 10-16
canonical_platform_name(name) ==
  LET p == Upper(Strip(IF Truthy(name) THEN name.val ELSE <<>>))
  IN IF p = <<"C", "5">> THEN <<"C", "5", "G", "A", "M", "E">>
     ELSE IF p = <<"H", "A", "L", "O">>
     THEN <<"H", "A", "L", "O", "S", "K", "I", "N", "S">>
     ELSE p

\* lines 231-232: an update time below 10^12 is taken for seconds
NormalizeTime(n) == IF LessThan(n, TenToTwelve) THEN TimesThousand(n) ELSE n

\* lines 228-232: ut, ut_int and the stored update_time of a platform entry
UpdateTimeOf(p) ==
  LET ut == Or(Get(p, "update_time"), Get(p, "updateTime"))
      ut_int == IF ut.type # "null" THEN to_int(ut) ELSE JNull
  IN IF ut_int.type # "null" THEN JNum(NormalizeTime(ut_int.val)) ELSE JNull

\* lines 200-208: data_list
DataList(r) ==
  IF r.type = "dict"
  THEN IF Get(r, "data").type = "list" THEN Get(r, "data").val
       ELSE IF Get(r, "items").type = "list" THEN Get(r, "items").val
       ELSE IF Get(r, "results").type = "list" THEN Get(r, "results").val
       ELSE <<>>
  ELSE IF r.type = "list" THEN r.val
  ELSE <<>>

\* line 211, before .strip()
ItemNameRaw(it) ==
  Or(Or(Get(it, "marketHashName"), Get(it, "market_hash_name")), JStr(<<>>))

\* lines 214-216: plats
PlatsOf(it) ==
  LET v == Or(Or(Or(Get(it, "platforms"), Get(it, "platformList")),
                 Get(it, "dataList")), JList(<<>>))
  IN IF v.type = "dict" THEN JList(<<v>>) ELSE v

\* line 221, before canonical_platform_name
PlatformNameRaw(p) ==
  Or(Or(Or(Get(p, "platform"), Get(p, "name")), Get(p, "plat")), JStr(<<>>))

\* lines 220-222: p.get of something that is not a dict raises, and so does
\* canonical_platform_name of a name that is not a string
PlatformRaises(p) == p.type # "dict" \/ CanonicalRaises(PlatformNameRaw(p))

\* line 220: `for p in plats` raises for a number; for a string it yields
\* the characters, and p.get of the first one raises
PlatsRaise(plats) ==
  \/ plats.type # "list"
  \/ \E i \in 1..Len(plats.val) : PlatformRaises(plats.val[i])

\* lines 211-222: what makes the body of `for it in data_list` raise
ItemRaises(it) ==
  \/ it.type # "dict"
  \/ ItemNameRaw(it).type # "str"
  \/ Strip(ItemNameRaw(it).val) # <<>> /\ PlatsRaise(PlatsOf(it))

\* lines 221-255: the Price row of one platform entry, with sell, buy,
\* sell_count and bidding_count of lines 224-227
RowOf(mhn, p) ==
  [market_hash_name |-> mhn,
   platform |-> canonical_platform_name(PlatformNameRaw(p)),
   sell_price |->
     to_float(Or(Or(Or(Get(p, "sell_price"), Get(p, "sellPrice")), Get(p, "sell")),
                 Get(p, "price"))),
   bidding_price |->
     to_float(Or(Or(Or(Get(p, "bidding_price"), Get(p, "biddingPrice")),
                    Get(p, "buy")), Get(p, "buy_price"))),
   sell_count |-> to_int(Or(Get(p, "sell_count"), Get(p, "sellCount"))),
   bidding_count |-> to_int(Or(Get(p, "bidding_count"), Get(p, "biddingCount"))),
   update_time |-> UpdateTimeOf(p)]

\* lines 211-256: the rows of one item; an item without a name is skipped
ItemRows(it) ==
  LET mhn == Strip(ItemNameRaw(it).val)
      plats == PlatsOf(it).val
  IN IF mhn = <<>> THEN <<>>
     ELSE [i \in 1..Len(plats) |-> RowOf(mhn, plats[i])]

RECURSIVE RowsOf(_)
RowsOf(data_list) ==
  IF data_list = <<>> THEN <<>>
  ELSE ItemRows(Head(data_list)) \o RowsOf(Tail(data_list))

\* lines 210-256: the rows the session holds when the first bad entry
\* raises: those of the items before it and, of the item whose body raises,
\* those of the platform entries before the bad one
RECURSIVE RowsBeforeRaise(_)
RowsBeforeRaise(data_list) ==
  LET it == Head(data_list)
      mhn == Strip(ItemNameRaw(it).val)
      plats == PlatsOf(it).val
      bad == CHOOSE i \in 1..Len(plats) :
               PlatformRaises(plats[i]) /\ \A j \in 1..(i - 1) : ~PlatformRaises(plats[j])
  IN IF data_list = <<>> THEN <<>>
     ELSE IF ~ItemRaises(it) THEN ItemRows(it) \o RowsBeforeRaise(Tail(data_list))
     ELSE IF it.type # "dict" \/ ItemNameRaw(it).type # "str"
             \/ PlatsOf(it).type # "list"
     THEN <<>>
     ELSE [i \in 1..(bad - 1) |-> RowOf(mhn, plats[i])]

\* the write block as it would be with a commit after every sess2.add
RowsAfterRollbackKept(added) == added

\* lines 257-259: sess2.rollback() drops the rows the session was given;
\* none of them was committed or flushed before (autoflush=False, db.py 27)
RowsAfterRollback(added) == <<>>

\* lines 198-262: the rows the session holds at the commit, or the exception
\* that the first bad entry raises and what the rollback leaves of the rows
Normalize(r) ==
  LET data_list == DataList(r)
  IN IF \E i \in 1..Len(data_list) : ItemRaises(data_list[i])
     THEN [raised |-> TRUE, rows |-> RowsAfterRollback(RowsBeforeRaise(data_list))]
     ELSE [raised |-> FALSE, rows |-> RowsOf(data_list)]

\* ---- status() ------------------------------------------------------------
StateLabel == IF paused THEN "paused" ELSE IF running THEN "running" ELSE "idle"

\* Python floats (IEEE 754 binary64).  A float that is not negative is its
\* significand, MantBits bits with the leading 1 first, and the exponent
\* `lead` of that leading bit: the value is 1.bbb... * 2^lead.  0.0 has the
\* empty significand.  Every operation rounds to nearest, ties to even.
MantBits == 53

Zeros(n) == [i \in 1..n |-> 0]

\* the integer of some bits
RECURSIVE BitsValue(_)
BitsValue(bits) ==
  IF bits = <<>> THEN 0
  ELSE 2 * BitsValue(SubSeq(bits, 1, Len(bits) - 1)) + bits[Len(bits)]

\* a + b, one bit longer than the longer of the two.  The carry into a
\* position: some position after it has two 1s, and every position between
\* has one.
BitsAdd(a, b) ==
  LET n == Max(Len(a), Len(b))
      x == Zeros(n - Len(a)) \o a
      y == Zeros(n - Len(b)) \o b
      carry(i) == IF \E j \in (i + 1)..n :
                        /\ x[j] + y[j] = 2
                        /\ \A k \in (i + 1)..(j - 1) : x[k] + y[k] = 1
                  THEN 1 ELSE 0
  IN [i \in 1..(n + 1) |->
        IF i = 1 THEN carry(0) ELSE (x[i - 1] + y[i - 1] + carry(i - 1)) % 2]

\* a * b: a shifted to every 1 of b, added up
RECURSIVE BitsMul(_, _)
BitsMul(a, b) ==
  IF b = <<>> THEN <<>>
  ELSE LET rest == BitsMul(a, SubSeq(b, 1, Len(b) - 1)) \o <<0>>
       IN IF b[Len(b)] = 1 THEN BitsAdd(rest, a) ELSE rest

\* Exact bits (leading 1 first, leading bit of weight 2^lead) are rounded to
\* MantBits bits; `more` says that the exact value has bits below the given
\* ones.  Rounding up adds 1: the last 0 becomes 1 and the 1s after it 0.
RoundBits(bits, lead, more) ==
  IF Len(bits) <= MantBits
  THEN [mant |-> bits \o Zeros(MantBits - Len(bits)), lead |-> lead]
  ELSE LET kept == SubSeq(bits, 1, MantBits)
           guard == bits[MantBits + 1]
           sticky == more \/ \E i \in (MantBits + 2)..Len(bits) : bits[i] = 1
           up == guard = 1 /\ (sticky \/ kept[MantBits] = 1)
           z == CHOOSE i \in 1..MantBits :
                  kept[i] = 0 /\ \A j \in (i + 1)..MantBits : kept[j] = 1
       IN IF ~up THEN [mant |-> kept, lead |-> lead]
          ELSE IF \A i \in 1..MantBits : kept[i] = 1
          THEN [mant |-> <<1>> \o Zeros(MantBits - 1), lead |-> lead + 1]
          ELSE [mant |-> [i \in 1..MantBits |->
                            IF i < z THEN kept[i] ELSE IF i = z THEN 1 ELSE 0],
                lead |-> lead]

\* num / den is brought into [1, 2): the result is (num / den) * 2^lead
RECURSIVE Scaled(_, _, _)
Scaled(num, den, lead) ==
  IF num < den THEN Scaled(2 * num, den, lead - 1)
  ELSE IF num >= 2 * den THEN Scaled(num, 2 * den, lead + 1)
  ELSE [num |-> num, den |-> den, lead |-> lead]

\* 2^i modulo n, by squaring
RECURSIVE PowMod(_, _)
PowMod(i, n) ==
  IF i = 0 THEN 1 % n
  ELSE LET h == PowMod(i \div 2, n)
       IN (h * h * (IF i % 2 = 1 THEN 2 ELSE 1)) % n

\* the next k bits of rem / den, rem < den, and what is left of rem once they
\* are taken out: bit i is the last binary digit of the integer part of
\* rem * 2^i / den
DivBits(rem, den, k) ==
  [bits |-> [i \in 1..k |-> ((rem * PowMod(i, 2 * den)) % (2 * den)) \div den],
   rem |-> (rem * PowMod(k, den)) % den]

\* a / b of two integers, a >= 0 and b > 0: the quotient, correctly rounded
TrueDiv(a, b) ==
  IF a = 0 THEN [mant |-> <<>>, lead |-> 0]
  ELSE LET sc == Scaled(a, b, 0)
           q == DivBits(sc.num - sc.den, sc.den, MantBits + 1)
       IN RoundBits(<<1>> \o q.bits, sc.lead, q.rem # 0)

\* x * y of two floats: the exact product of the significands (the zeros at
\* the end of y's are left out of the multiplication), rounded
FloatMul(x, y) ==
  IF x.mant = <<>> \/ y.mant = <<>> THEN [mant |-> <<>>, lead |-> 0]
  ELSE LET last == CHOOSE i \in 1..MantBits :
                     y.mant[i] = 1 /\ \A j \in (i + 1)..MantBits : y.mant[j] = 0
           raw == BitsMul(x.mant, SubSeq(y.mant, 1, last))
           first == CHOOSE i \in 1..Len(raw) :
                      raw[i] = 1 /\ \A j \in 1..(i - 1) : raw[j] = 0
           prod == SubSeq(raw, first, Len(raw))
       IN RoundBits(prod, x.lead + y.lead + Len(prod) - (MantBits - 1) - last, FALSE)

\* int(x) of a float x >= 0: the digits after the point are dropped
IntOf(x) ==
  IF x.mant = <<>> \/ x.lead < 0 THEN 0
  ELSE BitsValue(SubSeq(x.mant, 1, x.lead + 1))

\* the float 100.0 of `* 100`: 1100100 in binary, 1.1001 * 2^6
Hundred == RoundBits(<<1, 1, 0, 0, 1, 0, 0>>, 6, FALSE)

\* lines 271-273: int((self.completed_count / self.max_id) * 100)
PercentOf(completed, maxid) ==
  IF maxid > 0 THEN IntOf(FloatMul(TrueDiv(completed, maxid), Hundred)) ELSE 0

\* PercentOf for the counts and ids of the runs of the job, computed once
PercentTable ==
  [maxid \in 0..(MaxItemId + 1) |->
     [completed \in 0..(MaxItemId + 1) |-> PercentOf(completed, maxid)]]

Percent == PercentTable[max_id][completed_count]

\* the fields both status() methods return (lines 275-290 / 546-561)
StatusCommon ==
  [running |-> running, paused |-> paused, state |-> StateLabel,
   maxId |-> max_id, completedCount |-> completed_count, percent |-> Percent,
   currentStartId |-> current_start_id,
   currentEndIdNext |-> IF current_start_id > 0
                        THEN Min(max_id, current_start_id + batch_size - 1) ELSE 0,
   lastProcessedRange |-> last_processed_range,
   nextRunSet |-> next_run_ts # None,
   intervalSec |-> interval_sec, batchSize |-> batch_size]

\* the three fields only DualApiSequentialJob.status() returns (lines 561-563)
StatusDualOnly ==
  [nextClientId |-> next_client_id, alternating |-> TRUE, lastError |-> last_error]

StatusOf ==
  IF variant = "dual" THEN StatusCommon @@ StatusDualOnly ELSE StatusCommon

\* ---- initial state: the job as __init__ leaves it -------------------------
Catalogs(maxId) ==
  {cat \in [ItemIds -> RowKinds] : \A i \in ItemIds : i > maxId => cat[i] = "absent"}

\* The clients of the job: self.client is client 1 of the single job,
\* self.client1 and self.client2 are clients 1 and 2 of the dual job.
ClientIds == IF variant = "dual" THEN {1, 2} ELSE {1}
\* every client has an API key / any client may lack one
AllKeys == {[k \in ClientIds |-> TRUE]}
AnyKeys == [ClientIds -> BOOLEAN]

InitWith(catalogs, keys, resps, args) ==
  /\ variant \in {"single", "dual"}
  /\ catalog \in catalogs
  /\ api_key \in keys
  /\ resp \in resps /\ prices = <<>> /\ outcome = "pending"
  /\ platforms = {}
  /\ call_arg \in args /\ call_ret = <<>>
  /\ start_error = [c \in Callers |-> None]
  /\ running = FALSE /\ paused = FALSE
  /\ max_id = 0 /\ completed_count = 0 /\ current_start_id = 0
  /\ batch_size = DefaultBatchSize /\ interval_sec = DefaultInterval
  /\ last_processed_range = NoRange /\ next_run_ts = None
  /\ next_client_id = 1 /\ last_error = None
  /\ thread = None
  /\ stop_event = FALSE
  /\ lock = NoThread
  /\ pc = [th \in Threads |-> IF th \in Callers THEN "idle" ELSE "dead"]
  /\ loc = [th \in Threads |-> NoLoc]

\* A thread object no reference points to any more; start() makes a new one.
FreeLoops ==
  {t \in Loops : pc[t] = "dead" /\ thread # t /\ \A th \in Threads : loc[th].t # t}

NewLoop ==
  LoopOrder[CHOOSE i \in 1..Len(LoopOrder) :
              /\ LoopOrder[i] \in FreeLoops
              /\ \A j \in 1..(i - 1) : LoopOrder[j] \notin FreeLoops]


\* ---- start() ---------------------------------------------------------------
\* lines 70-72: start() finds the job running and executes
\* `return self.status()` inside `with self._lock`; status() asks for the same
\* lock.  The thread keeps the lock and waits for it: no step leaves
\* "start_nested_status".
StartWhileRunning(c) ==
  /\ pc[c] = "idle" /\ lock = NoThread
  /\ running
  /\ lock' = c
  /\ pc' = [pc EXCEPT ![c] = "start_nested_status"]
  /\ UNCHANGED <<variant, catalog, store, api_key, start_error, jobState, thread, stop_event, loc>>

\* int(start_id or 1), line 87: None and 0 give 1
StartIdOf(arg) == IF arg = 0 THEN 1 ELSE arg
\* max(1, int(batch_size or self.default_batch_size)), line 77
BatchSizeOf(arg) == Max(1, IF arg = 0 THEN DefaultBatchSize ELSE arg)
\* max(1, int(interval_sec or self.default_interval)), line 78
IntervalOf(arg) == Max(1, IF arg = 0 THEN DefaultInterval ELSE arg)

\* start() as it would be if it looked at the key of client 2 first
StartKeyErrorSecondFirst ==
  IF variant # "dual" THEN None
  ELSE IF ~api_key[2] THEN "STEAMDT_API_KEY_2"
  ELSE IF ~api_key[1] THEN "STEAMDT_API_KEY_1"
  ELSE None

\* The "error" of the result of DualApiSequentialJob.start() at lines 327-330,
\* None when both clients have a key; the message names the variable that is
\* not set.  PriceBatchJob.start() has no such check.
StartKeyError ==
  IF variant # "dual" THEN None
  ELSE IF ~api_key[1] THEN "STEAMDT_API_KEY_1"
  ELSE IF ~api_key[2] THEN "STEAMDT_API_KEY_2"
  ELSE None

\* lines 327-330: the result start() returns when a key is missing
StartErrorResult == [running |-> FALSE, paused |-> FALSE, error |-> StartKeyError]

\* lines 323-330: the dual job is not running and a client has no key;
\* start() returns the error result from inside the lock block.
StartMissingKey(c) ==
  /\ pc[c] = "idle" /\ lock = NoThread
  /\ ~running
  /\ StartKeyError # None
  /\ start_error' = [start_error EXCEPT ![c] = StartErrorResult.error]
  /\ UNCHANGED <<variant, catalog, store, api_key, jobState, thread, stop_event, lock,
                 pc, loc>>

\* lines 70-78 / 323-337: the job is not running (and the dual job has both
\* keys); the lock stays held for the query
StartAcquire(c, start_id, bs, iv) ==
  /\ pc[c] = "idle" /\ lock = NoThread
  /\ ~running
  /\ StartKeyError = None
  /\ FreeLoops # {}
  /\ lock' = c
  /\ stop_event' = FALSE
  /\ paused' = FALSE /\ running' = TRUE
  /\ batch_size' = BatchSizeOf(bs)
  /\ interval_sec' = IntervalOf(iv)
  /\ pc' = [pc EXCEPT ![c] = "start_query"]
  /\ loc' = [loc EXCEPT ![c].start_id = StartIdOf(start_id)]
  /\ start_error' = [start_error EXCEPT ![c] = None]
  /\ UNCHANGED <<variant, catalog, store, api_key, max_id, completed_count, current_start_id,
                 last_processed_range, next_run_ts, next_client_id, last_error,
                 thread>>

\* start() as it would be without the reset of lines 350-351
StartLaunchKeepingPointer(c) ==
  /\ pc[c] = "start_query" /\ lock = c
  /\ max_id' = CatalogMaxId
  /\ current_start_id' = loc[c].start_id
  /\ completed_count' = Max(0, loc[c].start_id - 1)
  /\ last_processed_range' = NoRange
  /\ next_run_ts' = None
  /\ thread' = NewLoop
  /\ pc' = [pc EXCEPT ![c] = "start_ret", ![NewLoop] = "top"]
  /\ loc' = [loc EXCEPT ![c] = NoLoc]
  /\ lock' = NoThread
  /\ UNCHANGED <<variant, catalog, store, api_key, start_error, running, paused,
                 batch_size, interval_sec, next_client_id, last_error,
                 stop_event>>

\* lines 80-93: the max-id query is made with the lock held; then the cursor
\* is set, the thread is created and started, and the lock is released.
StartLaunch(c) ==
  /\ pc[c] = "start_query" /\ lock = c
  /\ max_id' = CatalogMaxId
  /\ current_start_id' = loc[c].start_id
  /\ completed_count' = Max(0, loc[c].start_id - 1)
  /\ last_processed_range' = NoRange
  /\ next_run_ts' = None
  /\ next_client_id' = 1
  /\ last_error' = None
  /\ thread' = NewLoop
  /\ pc' = [pc EXCEPT ![c] = "start_ret", ![NewLoop] = "top"]
  /\ loc' = [loc EXCEPT ![c] = NoLoc]
  /\ lock' = NoThread
  /\ UNCHANGED <<variant, catalog, store, api_key, start_error, running, paused, batch_size, interval_sec,
                 stop_event>>

\* line 94: `return self.status()`, outside the lock block
StartReturn(c) ==
  /\ pc[c] = "start_ret" /\ lock = NoThread
  /\ pc' = [pc EXCEPT ![c] = "idle"]
  /\ UNCHANGED <<variant, catalog, store, api_key, start_error, jobState, thread, stop_event, lock, loc>>

\* ---- pause() / resume() / status() ----------------------------------------
\* pause() as it would be without the test of line 98
PauseUnguarded(c) ==
  /\ pc[c] = "idle" /\ lock = NoThread
  /\ paused' = TRUE
  /\ UNCHANGED <<variant, catalog, store, api_key, start_error, running, max_id,
                 completed_count, current_start_id, batch_size, interval_sec,
                 last_processed_range, next_run_ts, next_client_id, last_error,
                 thread, stop_event, lock, pc, loc>>

\* lines 96-101 / 357-362
Pause(c) ==
  /\ pc[c] = "idle" /\ lock = NoThread
  /\ paused' = (IF running /\ ~paused THEN TRUE ELSE paused)
  /\ UNCHANGED <<variant, catalog, store, api_key, start_error, running, max_id, completed_count,
                 current_start_id, batch_size, interval_sec,
                 last_processed_range, next_run_ts, next_client_id, last_error,
                 thread, stop_event, lock, pc, loc>>

\* lines 103-108 / 364-369
Resume(c) ==
  /\ pc[c] = "idle" /\ lock = NoThread
  /\ paused' = (IF running /\ paused THEN FALSE ELSE paused)
  /\ UNCHANGED <<variant, catalog, store, api_key, start_error, running, max_id, completed_count,
                 current_start_id, batch_size, interval_sec,
                 last_processed_range, next_run_ts, next_client_id, last_error,
                 thread, stop_event, lock, pc, loc>>

\* the snapshot a caller gets is StatusOf
Status(c) ==
  /\ pc[c] = "idle" /\ lock = NoThread
  /\ UNCHANGED vars

\* ---- stop(): by a caller, or by the loop itself (auto-stop) ----------------
\* lines 111-113
StopSignal(th) ==
  /\ pc[th] = (IF th \in Callers THEN "idle" ELSE "auto_stop")
  /\ lock = NoThread
  /\ stop_event' = (IF running THEN TRUE ELSE stop_event)
  /\ pc' = [pc EXCEPT ![th] = "stop_get"]
  /\ UNCHANGED <<variant, catalog, store, api_key, start_error, jobState, thread, lock, loc>>

\* lines 115-117
StopGet(th) ==
  /\ pc[th] = "stop_get" /\ lock = NoThread
  /\ loc' = [loc EXCEPT ![th].t = thread]
  /\ pc' = [pc EXCEPT ![th] = "stop_join"]
  /\ UNCHANGED <<variant, catalog, store, api_key, start_error, jobState, thread, stop_event, lock>>

IOStates == {"r_query", "r_api", "r_write"}
LockStates == {"r_read", "r_commit_empty", "r_commit", "l_after", "auto_stop",
               "stop_get", "stop_reset", "stop_ret"}

\* A thread that can stay where it is for longer than the 2-second join:
\* inside an I/O call, waiting for a lock someone holds, inside a join of its
\* own, or asleep in a polling loop whose exit condition does not hold.
Slow(t) ==
  \/ pc[t] \in IOStates
  \/ pc[t] \in LockStates /\ lock # NoThread
  \/ pc[t] = "stop_join"
  \/ pc[t] = "pause_wait" /\ paused /\ ~stop_event
  \/ pc[t] = "delay" /\ ~paused /\ ~stop_event

\* lines 118-122: no join when there is no live thread; join of the current
\* thread raises RuntimeError, which is swallowed; otherwise join returns when
\* the thread has ended or when the timeout expires.
JoinDone(th) ==
  \/ loc[th].t = None
  \/ loc[th].t # None /\ ~IsAlive(loc[th].t)
  \/ loc[th].t = th
  \/ loc[th].t # None /\ loc[th].t # th /\ IsAlive(loc[th].t) /\ Slow(loc[th].t)

StopJoin(th) ==
  /\ pc[th] = "stop_join"
  /\ JoinDone(th)
  /\ pc' = [pc EXCEPT ![th] = "stop_reset"]
  /\ UNCHANGED <<variant, catalog, store, api_key, start_error, jobState, thread, stop_event, lock, loc>>

\* stop() as it would be if it reset the job only after a successful join
StopResetIfJoined(th) ==
  /\ pc[th] = "stop_reset" /\ lock = NoThread
  /\ LET joined == loc[th].t = None \/ loc[th].t = th \/ ~IsAlive(loc[th].t)
     IN /\ running' = (IF joined THEN FALSE ELSE running)
        /\ paused' = (IF joined THEN FALSE ELSE paused)
        /\ thread' = (IF joined THEN None ELSE thread)
        /\ next_run_ts' = (IF joined THEN None ELSE next_run_ts)
  /\ loc' = [loc EXCEPT ![th] = NoLoc]
  /\ pc' = [pc EXCEPT ![th] = "stop_ret"]
  /\ UNCHANGED <<variant, catalog, store, api_key, start_error, max_id, completed_count, current_start_id,
                 batch_size, interval_sec, last_processed_range,
                 next_client_id, last_error, stop_event, lock>>

\* stop() as it would be if its last block left `paused` alone
StopResetKeepingPaused(th) ==
  /\ pc[th] = "stop_reset" /\ lock = NoThread
  /\ running' = FALSE
  /\ thread' = None
  /\ next_run_ts' = None
  /\ loc' = [loc EXCEPT ![th] = NoLoc]
  /\ pc' = [pc EXCEPT ![th] = "stop_ret"]
  /\ UNCHANGED <<variant, catalog, store, api_key, start_error, paused, max_id,
                 completed_count, current_start_id, batch_size, interval_sec,
                 last_processed_range, next_client_id, last_error, stop_event, lock>>

\* stop() as it would be if its last block also took the progress back
StopResetClearingProgress(th) ==
  /\ pc[th] = "stop_reset" /\ lock = NoThread
  /\ running' = FALSE /\ paused' = FALSE
  /\ thread' = None
  /\ next_run_ts' = None
  /\ completed_count' = 0
  /\ last_processed_range' = NoRange
  /\ loc' = [loc EXCEPT ![th] = NoLoc]
  /\ pc' = [pc EXCEPT ![th] = "stop_ret"]
  /\ UNCHANGED <<variant, catalog, store, api_key, start_error, max_id, current_start_id,
                 batch_size, interval_sec, next_client_id, last_error, stop_event, lock>>

\* lines 123-127
StopReset(th) ==
  /\ pc[th] = "stop_reset" /\ lock = NoThread
  /\ running' = FALSE /\ paused' = FALSE
  /\ thread' = None
  /\ next_run_ts' = None
  /\ loc' = [loc EXCEPT ![th] = NoLoc]
  /\ pc' = [pc EXCEPT ![th] = "stop_ret"]
  /\ UNCHANGED <<variant, catalog, store, api_key, start_error, max_id, completed_count, current_start_id,
                 batch_size, interval_sec, last_processed_range,
                 next_client_id, last_error, stop_event, lock>>

\* line 128: `return self.status()`.  A caller is back in the HTTP layer; a
\* loop that stopped itself leaves its loop (line 154) and ends.
StopReturn(th) ==
  /\ pc[th] = "stop_ret" /\ lock = NoThread
  /\ pc' = [pc EXCEPT ![th] = IF th \in Callers THEN "idle" ELSE "dead"]
  /\ UNCHANGED <<variant, catalog, store, api_key, start_error, jobState, thread, stop_event, lock, loc>>

\* ---- _loop -----------------------------------------------------------------
\* line 132: `while not self._stop_event.is_set()`; a false test ends the thread
LoopTop(t) ==
  /\ pc[t] = "top"
  /\ pc' = [pc EXCEPT ![t] = IF stop_event THEN "dead" ELSE "pause_wait"]
  /\ UNCHANGED <<variant, catalog, store, api_key, start_error, jobState, thread, stop_event, lock, loc>>

\* _loop as it would be without the stop check of lines 137-138
LoopPauseWaitUnchecked(t) ==
  /\ pc[t] = "pause_wait"
  /\ ~(paused /\ ~stop_event)
  /\ pc' = [pc EXCEPT ![t] = "r_read"]
  /\ UNCHANGED <<variant, catalog, store, api_key, start_error, jobState, thread, stop_event, lock, loc>>

\* lines 134-138: sleeps while paused and not stopped (no step of the model),
\* then leaves the loop if stopped and runs a window otherwise.  paused and
\* the stop event are read without the lock.
LoopPauseWait(t) ==
  /\ pc[t] = "pause_wait"
  /\ ~(paused /\ ~stop_event)
  /\ pc' = [pc EXCEPT ![t] = IF stop_event THEN "dead" ELSE "r_read"]
  /\ UNCHANGED <<variant, catalog, store, api_key, start_error, jobState, thread, stop_event, lock, loc>>

\* What _loop does when _run_one_range returns normally: the dual job clears
\* last_error (line 404), without the lock.
ErrorAfterReturn == IF variant = "dual" THEN None ELSE last_error
\* _loop of the dual job as it would be with the `except: pass` of the
\* single job
ErrorAfterRaiseDropped == last_error

\* ... and when it raises: the dual job records str(e) (line 407).
ErrorAfterRaise == IF variant = "dual" THEN "error" ELSE last_error

\* the window as it would be with the catalog's current largest id as its bound
EndIdOfCatalog(s) == Min(CatalogMaxId, s + batch_size - 1)

\* end_id = min(self.max_id, start_id + self.batch_size - 1), line 167
EndIdOf(s) == Min(max_id, s + batch_size - 1)

\* lines 165-170 / 427-433: read the cursor under the lock; the guard returns.
RunRead(t) ==
  /\ pc[t] = "r_read" /\ lock = NoThread
  /\ LET s == current_start_id
         e == EndIdOf(s)
     IN IF s > e \/ s <= 0
        THEN /\ pc' = [pc EXCEPT ![t] = "l_after"]
             /\ last_error' = ErrorAfterReturn
             /\ loc' = loc
        ELSE /\ pc' = [pc EXCEPT ![t] = "r_query"]
             /\ loc' = [loc EXCEPT ![t] = [start_id |-> s, end_id |-> e,
                                           client_id |-> next_client_id,
                                           t |-> None]]
             /\ last_error' = last_error
  /\ UNCHANGED <<variant, catalog, store, api_key, start_error, running, paused, max_id, completed_count,
                 current_start_id, batch_size, interval_sec,
                 last_processed_range, next_run_ts, next_client_id, thread,
                 stop_event, lock>>

\* line 180-181 against 444-450: with no rows at all in the window, the single
\* job returns at once and the dual job goes on to advance the cursor.
ReturnsOnNoItems == variant = "single"

\* lines 172-191 / 436-460: the catalog query and what follows from its rows
RunQuery(t) ==
  /\ pc[t] = "r_query"
  /\ LET s == loc[t].start_id
         e == loc[t].end_id
     IN IF ItemsIn(s, e) = {} /\ ReturnsOnNoItems
        THEN /\ pc' = [pc EXCEPT ![t] = "l_after"]
             /\ loc' = [loc EXCEPT ![t] = NoLoc]
        ELSE IF NamesIn(s, e) = {}
        THEN /\ pc' = [pc EXCEPT ![t] = "r_commit_empty"]
             /\ loc' = loc
        ELSE /\ pc' = [pc EXCEPT ![t] = "r_api"]
             /\ loc' = loc
  /\ UNCHANGED <<variant, catalog, store, api_key, start_error, jobState, thread, stop_event, lock>>

\* lines 187-191 / 446-450, 456-460: the window without names counts as done
RunCommitEmpty(t) ==
  /\ pc[t] = "r_commit_empty" /\ lock = NoThread
  /\ last_processed_range' = <<loc[t].start_id, loc[t].end_id>>
  /\ completed_count' = loc[t].end_id
  /\ current_start_id' = loc[t].end_id + 1
  /\ last_error' = ErrorAfterReturn
  /\ pc' = [pc EXCEPT ![t] = "l_after"]
  /\ loc' = [loc EXCEPT ![t] = NoLoc]
  /\ UNCHANGED <<variant, catalog, store, api_key, start_error, running, paused, max_id, batch_size,
                 interval_sec, next_run_ts, next_client_id, thread, stop_event,
                 lock>>

\* line 194 / 463-464: the external call returns a response; a client without
\* a key raises in _ensure_key instead (steamdt_client.py line 48)
RunApi(t) ==
  /\ pc[t] = "r_api"
  /\ api_key[loc[t].client_id]
  /\ pc' = [pc EXCEPT ![t] = "r_write"]
  /\ UNCHANGED <<variant, catalog, store, api_key, start_error, jobState, thread, stop_event, lock, loc>>

\* lines 196-262 / 466-531: the rows are added and committed
RunWrite(t) ==
  /\ pc[t] = "r_write"
  /\ pc' = [pc EXCEPT ![t] = "r_commit"]
  /\ UNCHANGED <<variant, catalog, store, api_key, start_error, jobState, thread, stop_event, lock, loc>>

\* _loop as it would be without its try/except: the exception ends the thread
AfterFailureUncaught == "dead"

\* Where a failed window leaves the loop: the exception is caught at lines
\* 143-145 / 405-407 and the loop goes on with the completion check.
AfterFailure == "l_after"

\* _run_one_range as it would be with the cursor advance in a `finally`
WindowFailAdvancing(t) ==
  /\ pc[t] \in IOStates
  /\ pc' = [pc EXCEPT ![t] = AfterFailure]
  /\ last_error' = ErrorAfterRaise
  /\ last_processed_range' = <<loc[t].start_id, loc[t].end_id>>
  /\ completed_count' = loc[t].end_id
  /\ current_start_id' = loc[t].end_id + 1
  /\ loc' = [loc EXCEPT ![t] = NoLoc]
  /\ UNCHANGED <<variant, catalog, store, api_key, start_error, running, paused, max_id, batch_size,
                 interval_sec, next_run_ts, next_client_id, thread,
                 stop_event, lock>>

\* The catalog query, the external call or the write raises: the exception
\* leaves _run_one_range (after the rollback) and is caught in _loop.
WindowFail(t) ==
  /\ pc[t] \in IOStates
  /\ pc' = [pc EXCEPT ![t] = AfterFailure]
  /\ last_error' = ErrorAfterRaise
  /\ loc' = [loc EXCEPT ![t] = NoLoc]
  /\ UNCHANGED <<variant, catalog, store, api_key, start_error, running, paused, max_id, completed_count,
                 current_start_id, batch_size, interval_sec,
                 last_processed_range, next_run_ts, next_client_id, thread,
                 stop_event, lock>>

\* line 538: the dual job passes the turn to the other credential
NextClient(client_id) == IF client_id = 1 THEN 2 ELSE 1

\* lines 264-267 / 534-538: commit the cursor advance
RunCommit(t) ==
  /\ pc[t] = "r_commit" /\ lock = NoThread
  /\ last_processed_range' = <<loc[t].start_id, loc[t].end_id>>
  /\ completed_count' = loc[t].end_id
  /\ current_start_id' = loc[t].end_id + 1
  /\ next_client_id' = (IF variant = "dual" THEN NextClient(loc[t].client_id)
                        ELSE next_client_id)
  /\ last_error' = ErrorAfterReturn
  /\ pc' = [pc EXCEPT ![t] = "l_after"]
  /\ loc' = [loc EXCEPT ![t] = NoLoc]
  /\ UNCHANGED <<variant, catalog, store, api_key, start_error, running, paused, max_id, batch_size,
                 interval_sec, next_run_ts, thread, stop_event, lock>>

\* _loop as it would be with `done = self.completed_count > self.max_id`
LoopAfterStrict(t) ==
  /\ pc[t] = "l_after" /\ lock = NoThread
  /\ next_run_ts' = "set"
  /\ pc' = [pc EXCEPT ![t] = IF completed_count > max_id THEN "auto_stop"
                             ELSE "delay"]
  /\ UNCHANGED <<variant, catalog, store, api_key, start_error, running, paused,
                 max_id, completed_count, current_start_id, batch_size,
                 interval_sec, last_processed_range, next_client_id,
                 last_error, thread, stop_event, lock, loc>>

\* lines 148-154: the completion check; a finished job calls stop() itself
LoopAfter(t) ==
  /\ pc[t] = "l_after" /\ lock = NoThread
  /\ next_run_ts' = "set"
  /\ pc' = [pc EXCEPT ![t] = IF completed_count >= max_id THEN "auto_stop"
                             ELSE "delay"]
  /\ UNCHANGED <<variant, catalog, store, api_key, start_error, running, paused, max_id, completed_count,
                 current_start_id, batch_size, interval_sec,
                 last_processed_range, next_client_id, last_error, thread,
                 stop_event, lock, loc>>

\* _loop as it would be if the delay waited out a pause inside itself and
\* then went on with the rest of the interval
LoopDelayHeldByPause(t) ==
  /\ pc[t] = "delay"
  /\ ~paused \/ stop_event
  /\ pc' = [pc EXCEPT ![t] = "top"]
  /\ UNCHANGED <<variant, catalog, store, api_key, start_error, jobState, thread, stop_event, lock, loc>>

\* lines 157-162: the delay ends when the stop event is set, when paused is
\* seen, or when the interval has been slept out; the time slept is not
\* modelled, so the delay can end at any moment.
LoopDelay(t) ==
  /\ pc[t] = "delay"
  /\ pc' = [pc EXCEPT ![t] = "top"]
  /\ UNCHANGED <<variant, catalog, store, api_key, start_error, jobState, thread, stop_event, lock, loc>>

\* ---- the system ------------------------------------------------------------
IntervalArgs == {0}
\* startId of a request: omitted (0 stands for None and for 0, which
\* `start_id or 1` treats alike), a negative number, every id up to maxId and
\* the one after it
StartIdArgs(maxId) == -1..(maxId + 1)

LoopStep(t) ==
  \/ LoopTop(t)
  \/ LoopPauseWait(t)
  \/ RunRead(t)
  \/ RunQuery(t)
  \/ RunCommitEmpty(t)
  \/ RunApi(t)
  \/ RunWrite(t)
  \/ RunCommit(t)
  \/ LoopAfter(t)
  \/ LoopDelay(t)

StopStep(th) ==
  \/ StopGet(th)
  \/ StopJoin(th)
  \/ StopReset(th)
  \/ StopReturn(th)

\* Spec: every client has its key, two request threads make every call in
\* every order, windows may fail, and a loop that outlives a stop() runs next
\* to its successor.
Init == InitWith(Catalogs(ConcItemId), AllKeys, {JNull}, {JNull})

Next ==
  \/ \E c \in Callers : StartWhileRunning(c)
  \/ \E c \in Callers, s \in 0..(ConcItemId + 2), i \in IntervalArgs :
        StartAcquire(c, s, 0, i)
  \/ \E c \in Callers : StartLaunch(c)
  \/ \E c \in Callers : StartReturn(c)
  \/ \E c \in Callers : Pause(c)
  \/ \E c \in Callers : Resume(c)
  \/ \E c \in Callers : Status(c)
  \/ \E th \in Threads : StopSignal(th)
  \/ \E th \in Threads : StopStep(th)
  \/ \E t \in Loops : LoopStep(t)
  \/ \E t \in Loops : WindowFail(t)

Spec == Init /\ [][Next]_vars

\* SpecSeq: one request thread starts, pauses and resumes the job and never
\* calls stop(), so the job ends by auto-stop only and no loop outlives a
\* stop(); windows may fail, and any client may lack its API key.
InitSeq == InitWith(Catalogs(MaxItemId), AnyKeys, {JNull}, {JNull})

NextSeq ==
  \/ StartWhileRunning("c1")
  \/ StartMissingKey("c1")
  \/ \E s \in StartIdArgs(MaxItemId), b \in 0..MaxBatchArg, i \in IntervalArgs :
        StartAcquire("c1", s, b, i)
  \/ StartLaunch("c1")
  \/ StartReturn("c1")
  \/ Pause("c1")
  \/ Resume("c1")
  \/ Status("c1")
  \/ \E t \in Loops : StopSignal(t)
  \/ \E t \in Loops : StopStep(t)
  \/ \E t \in Loops : LoopStep(t)
  \/ \E t \in Loops : WindowFail(t)

SpecSeq == InitSeq /\ [][NextSeq]_vars

\* SpecRun: every client has its key, the job is started with start_id = 1
\* and left alone, and no window fails.
NextRun ==
  \/ \E b \in 0..MaxBatchArg, i \in IntervalArgs : StartAcquire("c1", 1, b, i)
  \/ StartLaunch("c1")
  \/ StartReturn("c1")
  \/ Status("c1")
  \/ \E t \in Loops : StopSignal(t)
  \/ \E t \in Loops : StopStep(t)
  \/ \E t \in Loops : LoopStep(t)

InitRun == InitWith(Catalogs(MaxItemId), AllKeys, {JNull}, {JNull})

SpecRun == InitRun /\ [][NextRun]_vars

\* SpecRunFair: SpecRun with threads that keep running: a request thread
\* inside start() goes on to its end, and a loop thread that can take a step
\* takes one (a sleep ends, a free lock is acquired, an I/O call returns).
SpecRunFair ==
  /\ SpecRun
  /\ WF_vars(StartLaunch("c1"))
  /\ WF_vars(StartReturn("c1"))
  /\ \A t \in Loops : WF_vars(LoopStep(t) \/ StopSignal(t) \/ StopStep(t))

\* SpecStartFair: SpecRunFair for every start id: the job is started with
\* any start_id and left alone, no window fails, and the threads keep running.
SpecStartFair ==
  /\ InitRun
  /\ [][\/ \E s \in StartIdArgs(MaxItemId), b \in 0..MaxBatchArg, i \in IntervalArgs :
              StartAcquire("c1", s, b, i)
        \/ StartLaunch("c1")
        \/ StartReturn("c1")
        \/ Status("c1")
        \/ \E t \in Loops : StopSignal(t)
        \/ \E t \in Loops : StopStep(t)
        \/ \E t \in Loops : LoopStep(t)]_vars
  /\ WF_vars(StartLaunch("c1"))
  /\ WF_vars(StartReturn("c1"))
  /\ \A t \in Loops : WF_vars(LoopStep(t) \/ StopSignal(t) \/ StopStep(t))

\* ---- SpecGrow: the catalog grows during a run ---------------------------------
\* app.py lines 642-659 (admin_create_item; the imports of lines 85, 341 and
\* 403 do the same): a request adds an item with a name; the items table
\* gives it the id after the largest one.
CreateItem ==
  /\ CatalogMaxId < MaxItemId
  /\ catalog' = [catalog EXCEPT ![CatalogMaxId + 1] = "named"]
  /\ UNCHANGED <<variant, store, api_key, start_error, jobState, thread, stop_event,
                 lock, pc, loc>>

\* SpecGrow: the runs of SpecRun, with items created at any moment
SpecGrow == InitRun /\ [][NextRun \/ CreateItem]_vars

\* ---- SpecStop: one request thread starts and stops the job ---------------------
\* Every client has its key and no window fails; the job is started with
\* start_id = 1 and a batch size, stopped by its caller at any moment and
\* started again, so that a loop that outlives a stop() (its join has timed
\* out) runs next to its successor.  Every item of the catalog has a name.
SpecStop ==
  /\ InitWith({cat \in Catalogs(MaxItemId) : \A i \in ItemIds : cat[i] # "blank"},
              AllKeys, {JNull}, {JNull})
  /\ [][\/ StartWhileRunning("c1")
        \/ \E b \in 1..MaxBatchArg, i \in IntervalArgs : StartAcquire("c1", 1, b, i)
        \/ StartLaunch("c1")
        \/ StartReturn("c1")
        \/ Status("c1")
        \/ \E th \in Loops \cup {"c1"} : StopSignal(th)
        \/ \E th \in Loops \cup {"c1"} : StopStep(th)
        \/ \E t \in Loops : LoopStep(t)]_vars

\* ---- SpecNorm: one response through the normaliser -------------------------
\* The three specifications above do not look into a response: RunApi and
\* RunWrite stand for any response that is written without an exception, and
\* WindowFail for any that is not.  SpecNorm looks into it: the job stays as
\* constructed, one response is normalised and written, and the application
\* is restarted any number of times.

\* a dict with the keys of f whose value is not None
Prune(f) == JDict([k \in {x \in DOMAIN f : f[x].type # "null"} |-> f[k]])

\* update times: none, 0, 5, 1700000000, 1700000000000, 10^12 - 1, the string
\* "1700000000" and a string that is no number
TimeInputs ==
  {JNull, JNum(<<>>), JNum(<<5>>), JNum(<<1, 700, 0, 0>>),
   JNum(<<1, 700, 0, 0, 0>>), JNum(<<999, 999, 999, 999>>),
   JStr(<<"1", "7", "0", "0", "0", "0", "0", "0", "0", "0">>), JStr(<<"x">>)}

\* platform names: none, " c5 ", "HALO", and the number 7
PlatformNameInputs ==
  {JNull, JStr(<<" ", "c", "5", " ">>), JStr(<<"H", "A", "L", "O">>), JNum(<<7>>)}

\* something that is no JSON object: None, a number, a string
NotObjects == {JNull, JNum(<<7>>), JStr(<<"x">>)}

PlatformDicts ==
  {Prune([platform |-> n, update_time |-> u]) :
      n \in PlatformNameInputs, u \in TimeInputs}
  \cup {Prune([name |-> n, updateTime |-> JNum(<<1, 700, 0, 0>>)]) :
           n \in PlatformNameInputs}

\* the value under "platforms": none, a list of no or one entry, one object
\* in place of the list, a number, a string
PlatsInputs ==
  {JNull, JList(<<>>), JNum(<<7>>), JStr(<<"x">>)}
  \cup {JList(<<p>>) : p \in PlatformDicts \cup NotObjects}
  \cup PlatformDicts

\* item names: none, "", " ", " AK " and the number 7
ItemNameInputs ==
  {JNull, JStr(<<>>), JStr(<<" ">>), JStr(<<" ", "A", "K", " ">>), JNum(<<7>>)}

ItemInputs ==
  NotObjects
  \cup {Prune([marketHashName |-> n, platforms |-> ps]) :
           n \in ItemNameInputs, ps \in PlatsInputs}
  \cup {Prune([market_hash_name |-> n, platformList |-> JList(<<p>>)]) :
           n \in ItemNameInputs, p \in PlatformDicts}

\* a well-formed item with one platform entry
GoodItem ==
  Prune([marketHashName |-> JStr(<<"A", "K">>),
         platforms |-> JList(<<Prune([platform |-> JStr(<<"C", "5">>),
                                      update_time |-> JNum(<<1, 700, 0, 0>>)])>>)])

ItemLists ==
  {<<>>} \cup {<<it>> : it \in ItemInputs} \cup {<<GoodItem, it>> : it \in ItemInputs}

\* responses: no object and no array, an array, an object with the list
\* under "data", "items" or "results", an object whose "data" is no list,
\* an object without any of the keys
Responses ==
  NotObjects
  \cup {JList(l) : l \in ItemLists}
  \cup {Prune([data |-> JList(l)]) : l \in ItemLists}
  \cup {Prune([data |-> JStr(<<"x">>), items |-> JList(l)]) : l \in ItemLists}
  \cup {Prune([results |-> JList(l)]) : l \in ItemLists}
  \cup {JDict(<<>>), Prune([data |-> JNum(<<7>>)])}

\* lines 196-262 / 466-531: the response is normalised and its rows are
\* committed, or the exception of a bad entry rolls everything back
NormalizeAndWrite ==
  /\ outcome = "pending"
  /\ LET n == Normalize(resp)
     IN /\ outcome' = IF n.raised THEN "raised" ELSE "committed"
        /\ prices' = prices \o n.rows
  /\ UNCHANGED <<platforms, variant, catalog, resp, call_arg, call_ret, api_key, start_error, jobState,
                 thread, stop_event, lock, pc, loc>>

\* lines 218, 236-240, 256-259: a lookup query or the commit raises a database
\* error after some rows were added; the rollback follows and the error
\* leaves _run_one_range
WriteFails ==
  /\ outcome = "pending"
  /\ ~Normalize(resp).raised
  /\ \E k \in 0..Len(Normalize(resp).rows) :
        prices' = prices \o RowsAfterRollback(SubSeq(Normalize(resp).rows, 1, k))
  /\ outcome' = "failed"
  /\ UNCHANGED <<platforms, variant, catalog, resp, call_arg, call_ret, api_key, start_error, jobState,
                 thread, stop_event, lock, pc, loc>>

\* db.py lines 185-187: the UPDATE of one row
MigrateRow(row) ==
  IF row.update_time.type = "num" /\ LessThan(row.update_time.val, TenToTwelve)
  THEN [row EXCEPT !.update_time = JNum(TimesThousand(row.update_time.val))]
  ELSE row

\* db.py lines 180-192: the application starts again and migrate_prices_table
\* runs its UPDATE over the stored rows
MigratePrices ==
  /\ prices' = [i \in 1..Len(prices) |-> MigrateRow(prices[i])]
  /\ UNCHANGED <<platforms, variant, catalog, resp, outcome, call_arg, call_ret, api_key, start_error,
                 jobState, thread, stop_event, lock, pc, loc>>

InitNorm == InitWith({[i \in ItemIds |-> "absent"]}, AllKeys, Responses, {JNull})

NextNorm == NormalizeAndWrite \/ WriteFails \/ MigratePrices

SpecNorm == InitNorm /\ [][NextNorm]_vars

\* ---- SpecCanon: canonical_platform_name on its own --------------------------
\* The job stays as constructed; the function is called with a name and then
\* with its own result.

\* the spellings of a word: every letter in either case, with up to MaxPad
\* blanks on each side
Spellings(word) ==
  LET Blanks(n) == [i \in 1..n |-> " "]
      Cased(up) ==
        [i \in 1..Len(word) |->
           IF up[i] /\ word[i] \in DOMAIN UpperOf THEN UpperOf[word[i]] ELSE word[i]]
  IN {Blanks(l) \o Cased(up) \o Blanks(r) :
        l \in 0..MaxPad, r \in 0..MaxPad, up \in [1..Len(word) -> BOOLEAN]}

AliasC5 == <<"c", "5">>
AliasHalo == <<"h", "a", "l", "o">>
NameC5Game == <<"c", "5", "g", "a", "m", "e">>
NameHaloSkins == <<"h", "a", "l", "o", "s", "k", "i", "n", "s">>

\* names: None, the spellings of the aliases and of the canonical names, and
\* every string of at most MaxNameLen of the characters blank, c, C, 5 and x
NameInputs ==
  LET ShortNames == UNION {[1..n -> {" ", "c", "C", "5", "x"}] : n \in 0..MaxNameLen}
  IN {JNull} \cup {JStr(w) : w \in Spellings(AliasC5) \cup Spellings(AliasHalo)
                                 \cup Spellings(NameC5Game) \cup Spellings(NameHaloSkins)
                                 \cup ShortNames}

\* canonical_platform_name(name), and then canonical_platform_name of the result
Canonicalize ==
  /\ Len(call_ret) < 2
  /\ call_ret' = Append(call_ret, canonical_platform_name(
                           IF call_ret = <<>> THEN call_arg ELSE JStr(call_ret[Len(call_ret)])))
  /\ UNCHANGED <<platforms, variant, catalog, resp, prices, outcome, call_arg, api_key, start_error,
                 jobState, thread, stop_event, lock, pc, loc>>

SpecCanon ==
  /\ InitWith({[i \in ItemIds |-> "absent"]}, AllKeys, {JNull}, NameInputs)
  /\ [][Canonicalize]_vars

\* ---- SpecCatalog: the items and platforms tables -----------------------------
\* The job stays as constructed.  Requests refresh the catalog, import it from
\* a file and create items; each request brings one item with its platform
\* list.  A session does not flush before a query (db.py line 27), so a query
\* sees the committed rows only, and an exception rolls the request back.

\* the names of a platform list: empty, C5 in three spellings, C5GAME, X
ListingInputs ==
  LET names == {<<>>, Upper(AliasC5), AliasC5, <<" ">> \o Upper(AliasC5),
                Upper(NameC5Game), <<"X">>}
  IN UNION {[1..n -> names] : n \in 0..2}

\* db.py lines 50-58: item_id is NOT NULL, and (item_id, name) is unique.
\* The commit of the rows `adds` of item `id` (0: an Item that has no id yet)
\* raises when a row has no item id or when two of the rows are equal.
CommitRaises(id, adds) ==
  \/ id = 0 /\ adds # <<>>
  \/ \E j, k \in 1..Len(adds) : j < k /\ adds[j] = adds[k]

\* app.py lines 74-106, fetch_base_info, for the item of id i (0: an item that
\* is not in the table): a new Item is added and not flushed, so its id is
\* None when the Platform rows are built; a listing is added under its
\* stripped name unless the table has a row of that name.
FetchBaseInfo(i, plats) ==
  /\ i # 0 => catalog[i] # "absent"
  /\ i = 0 => CatalogMaxId < MaxItemId
  /\ LET names == SelectSeq([j \in 1..Len(plats) |-> Strip(plats[j])],
                            LAMBDA n : n # <<>>)
         adds == SelectSeq(names, LAMBDA n : <<i, n>> \notin platforms)
     IN IF CommitRaises(i, adds)
        THEN UNCHANGED <<catalog, platforms>>
        ELSE /\ catalog' = IF i = 0 THEN [catalog EXCEPT ![CatalogMaxId + 1] = "named"]
                           ELSE catalog
             /\ platforms' = platforms \cup {<<i, adds[j]>> : j \in 1..Len(adds)}
  /\ UNCHANGED <<variant, resp, prices, outcome, call_arg, call_ret, api_key,
                 start_error, jobState, thread, stop_event, lock, pc, loc>>

\* app.py lines 329-352 and 396-414, the two imports from a file, for an item
\* that is not in the table (one that is in it is skipped): the Item is
\* flushed and has its id, and every listing is added under its stripped name.
ImportItem(plats) ==
  /\ CatalogMaxId < MaxItemId
  /\ LET id == CatalogMaxId + 1
         adds == SelectSeq([j \in 1..Len(plats) |-> Strip(plats[j])],
                           LAMBDA n : n # <<>>)
     IN IF CommitRaises(id, adds)
        THEN UNCHANGED <<catalog, platforms>>
        ELSE /\ catalog' = [catalog EXCEPT ![id] = "named"]
             /\ platforms' = platforms \cup {<<id, adds[j]>> : j \in 1..Len(adds)}
  /\ UNCHANGED <<variant, resp, prices, outcome, call_arg, call_ret, api_key,
                 start_error, jobState, thread, stop_event, lock, pc, loc>>

\* app.py lines 635-659, admin_create_item with a platform list: every listing
\* is added under its canonical name (app.py lines 451-457, the same function
\* as lines 10-16 of job_manager.py).
AdminCreateItem(plats) ==
  /\ CatalogMaxId < MaxItemId
  /\ LET id == CatalogMaxId + 1
         adds == SelectSeq([j \in 1..Len(plats) |-> canonical_platform_name(JStr(plats[j]))],
                           LAMBDA n : n # <<>>)
     IN IF CommitRaises(id, adds)
        THEN UNCHANGED <<catalog, platforms>>
        ELSE /\ catalog' = [catalog EXCEPT ![id] = "named"]
             /\ platforms' = platforms \cup {<<id, adds[j]>> : j \in 1..Len(adds)}
  /\ UNCHANGED <<variant, resp, prices, outcome, call_arg, call_ret, api_key,
                 start_error, jobState, thread, stop_event, lock, pc, loc>>

\* job_manager.py lines 234-241: the writer's query for the listing of item i
\* whose name is plat_name finds a row
PlatformLookup(i, plat_name) == <<i, plat_name>> \in platforms

SpecCatalog ==
  /\ InitWith({[i \in ItemIds |-> "absent"]}, AllKeys, {JNull}, {JNull})
  /\ [][\E plats \in ListingInputs :
          \/ \E i \in 0..MaxItemId : FetchBaseInfo(i, plats)
          \/ ImportItem(plats)
          \/ AdminCreateItem(plats)]_vars

\* ---- SpecPercent: the percent of status() on its own -------------------------
\* The job stays as constructed; the computation of lines 271-273 is made
\* for a completed_count and a max_id.
StatusPercent ==
  /\ call_ret = <<>>
  /\ call_ret' = <<PercentOf(call_arg.completed_count, call_arg.max_id)>>
  /\ UNCHANGED <<platforms, variant, catalog, resp, prices, outcome, call_arg, api_key,
                 start_error, jobState, thread, stop_event, lock, pc, loc>>

SpecPercent ==
  /\ InitWith({[i \in ItemIds |-> "absent"]}, AllKeys, {JNull},
              [completed_count : 0..MaxCount, max_id : 0..MaxCount])
  /\ [][StatusPercent]_vars

\* ---- SpecRow: the row of one platform entry ----------------------------------
\* The job stays as constructed; the row of lines 224-255 is built for one
\* platform entry of an item.

\* lines 224-228: the keys of each numeric field, in the order they are tried
FieldKeys ==
  [sell_price |-> <<"sell_price", "sellPrice", "sell", "price">>,
   bidding_price |-> <<"bidding_price", "biddingPrice", "buy", "buy_price">>,
   sell_count |-> <<"sell_count", "sellCount">>,
   bidding_count |-> <<"bidding_count", "biddingCount">>,
   update_time |-> <<"update_time", "updateTime">>]

\* the platform entries that have some keys of one field: a key is absent,
\* or holds 0, or holds its place in the order (1 for the first key)
EntryInputs ==
  LET EntryOf(f, has) ==
        LET keys == FieldKeys[f]
            place(k) == CHOOSE i \in 1..Len(keys) : keys[i] = k
        IN JDict([k \in {keys[i] : i \in {j \in 1..Len(keys) : has[j] # "absent"}} |->
                    IF has[place(k)] = "zero" THEN JNum(<<>>) ELSE JNum(<<place(k)>>)])
  IN UNION {{EntryOf(f, has) :
               has \in [1..Len(FieldKeys[f]) -> {"absent", "zero", "place"}]} :
              f \in DOMAIN FieldKeys}

\* lines 220-255: the row of the entry
BuildRow ==
  /\ call_ret = <<>>
  /\ call_ret' = <<RowOf(<<"A", "K">>, call_arg)>>
  /\ UNCHANGED <<platforms, variant, catalog, resp, prices, outcome, call_arg, api_key,
                 start_error, jobState, thread, stop_event, lock, pc, loc>>

SpecRow ==
  /\ InitWith({[i \in ItemIds |-> "absent"]}, AllKeys, {JNull}, EntryInputs)
  /\ [][BuildRow]_vars

\* ---- vocabulary of the claims ---------------------------------------------
\* inside the `while` of _loop
InLoop(t) == pc[t] \in {"top", "pause_wait", "r_read", "r_query", "r_commit_empty",
                        "r_api", "r_write", "r_commit", "l_after", "delay"}
\* between the read of the cursor and the commit or failure of the window
InWindow(t) == pc[t] \in {"r_query", "r_commit_empty", "r_api", "r_write", "r_commit"}
NoWindowInFlight == \A t \in Loops : ~InWindow(t)

\* C1: start() on a running job returns and leaves the lock free: no thread
\* is ever left waiting for the lock while holding it itself.
C1_StartWhileRunningReturns ==
  \A c \in Callers : ~(pc[c] = "start_nested_status" /\ lock = c)

\* C2: a stop() call always completes: a thread inside stop() never needs a
\* lock whose holder will never release it.
C2_StopNeverHangs ==
  \A th \in Threads :
     pc[th] \in {"stop_get", "stop_reset", "stop_ret"}
       => ~(lock \in Callers /\ pc[lock] = "start_nested_status")

\* C3: a job has at most one live background loop: there are never two
\* threads inside the loop with the stop event clear, that is, two threads
\* that both go on iterating.
C3_AtMostOneLoop ==
  \A t1, t2 \in Loops :
     (t1 # t2 /\ InLoop(t1) /\ InLoop(t2)) => stop_event

\* C4: no two windows of the job are in flight at the same time.
C4_OneWindowInFlight ==
  \A t1, t2 \in Loops : (InWindow(t1) /\ InWindow(t2)) => t1 = t2

\* C5: started with start_id = 1 and with no failing window, every pass of
\* process-one-window over a window [s, e] has s = completed_count + 1 and
\* e - s + 1 <= batch_size and moves the cursor to e + 1 and completed_count
\* to e, whatever the catalog holds; the cursor never goes back; and the job
\* stops itself only with completed_count = max_id.
C5_WindowsCoverCatalog ==
  /\ [](\A t \in Loops :
          /\ InWindow(t) => /\ loc[t].start_id = completed_count + 1
                            /\ loc[t].start_id = current_start_id
                            /\ loc[t].end_id - loc[t].start_id + 1 <= batch_size
                            /\ loc[t].end_id <= max_id
          /\ pc[t] = "auto_stop" => completed_count = max_id)
  /\ [][\A t \in Loops :
          (InWindow(t) /\ pc'[t] = "l_after")
             => /\ current_start_id' = loc[t].end_id + 1
                /\ completed_count' = loc[t].end_id]_vars
  /\ [][(\A c \in Callers : pc[c] # "start_query")
          => current_start_id' >= current_start_id]_vars

\* C6: stop() leaves the job idle, whether or not the loop ended within the
\* join: its last block sets running = false, paused = false and the label
\* "idle", and afterwards only a start() makes the job running again and only
\* a pause() of a running job makes it paused; a loop that outlived the join
\* does neither.
C6_StopLeavesIdle ==
  /\ [][(\E th \in Threads : pc[th] = "stop_reset" /\ pc'[th] = "stop_ret")
          => (~running' /\ ~paused' /\ StateLabel' = "idle")]_vars
  /\ [][(~running /\ running')
          => \E c \in Callers : pc[c] = "idle" /\ pc'[c] = "start_query"]_vars
  /\ [][(~paused /\ paused') => (running /\ pc' = pc)]_vars

\* C6 witness: a caller's stop() has reset the job while a loop it could not
\* join is still in a window.
C6_Witness ==
  \E c \in Callers, t \in Loops :
     pc[c] = "stop_ret" /\ InWindow(t) /\ ~running /\ StateLabel = "idle"

\* C7: while the job is paused and no window is in flight, the loop starts no
\* window and the cursor and completed_count stay as they are.
C7_PauseFreezesCursor ==
  [][(paused /\ paused' /\ NoWindowInFlight)
       => /\ NoWindowInFlight'
          /\ current_start_id' = current_start_id
          /\ completed_count' = completed_count]_vars

\* C8: a failing window leaves current_start_id, completed_count and
\* last_processed_range as they were when the window read the cursor, and the
\* next window the loop processes has the same start_id: the three fields do
\* not move while the window is in flight nor when it fails, and until the
\* loop reads the cursor again only a window's commit or a start() moves them.
C8_FailedWindowIsRetried ==
  /\ [](\A t \in Loops : pc[t] \in IOStates
          => /\ current_start_id = loc[t].start_id
             /\ completed_count = loc[t].start_id - 1)
  /\ [][\A t \in Loops :
          (pc[t] \in IOStates /\ pc'[t] = "l_after")
             => /\ current_start_id' = loc[t].start_id
                /\ completed_count' = completed_count
                /\ last_processed_range' = last_processed_range]_vars
  /\ [][(<<current_start_id, completed_count, last_processed_range>>'
            # <<current_start_id, completed_count, last_processed_range>>)
          => \/ \E t \in Loops : pc[t] \in {"r_commit", "r_commit_empty"}
             \/ \E c \in Callers : pc[c] = "start_query" /\ NoWindowInFlight]_vars

\* C8 witness: the dual job is in a window again after a failure, with the
\* cursor where the failed window found it.
C8_Witness ==
  \E t \in Loops :
     /\ pc[t] = "r_api" /\ last_error = "error"
     /\ loc[t].start_id = current_start_id /\ current_start_id > 1

\* C9: a failing window does not end the loop and changes neither running nor
\* paused: the loop goes to the completion check, which does not find the job
\* complete, so it goes on to the delay; and a loop thread ends only when it
\* sees the stop event or has stopped the job itself.
C9_FailureKeepsLoopAlive ==
  /\ [][\A t \in Loops :
          (pc[t] \in IOStates /\ pc'[t] \notin IOStates \cup {"r_commit_empty", "r_commit"})
             => /\ pc'[t] = "l_after"
                /\ running' = running /\ paused' = paused
                /\ completed_count' < max_id']_vars
  /\ [][\A t \in Loops :
          (pc[t] # "dead" /\ pc'[t] = "dead")
             => (stop_event \/ pc[t] = "stop_ret")]_vars

\* C9 witness: after a failure the loop of the dual job has waited out the
\* delay and is in a window again.
C9_Witness ==
  \E t \in Loops : pc[t] = "r_query" /\ last_error = "error" /\ running

\* C10: in the dual job the credential pointer flips after every window that
\* made an external call, also when that window failed.
C10_AlternationUnconditional ==
  [][\A t \in Loops :
       (variant = "dual" /\ pc[t] \in {"r_api", "r_write"} /\ pc'[t] = "l_after")
          => next_client_id' = NextClient(loc[t].client_id)]_vars

\* a window of the dual job that calls, or has called, the external API
InApiWindow(t) == variant = "dual" /\ pc[t] \in {"r_api", "r_write", "r_commit"}

\* C11: in the dual job the credential a window uses is the one
\* status().nextClientId showed when the window read the cursor and still
\* shows while the window calls the API; start() sets the pointer to 1; the
\* commit of a window that called the API moves the pointer to the other
\* credential, and nothing else moves it.  So the first API-calling window
\* after start() uses credential 1 and successful API-calling windows use
\* 1, 2, 1, 2, ...
C11_SuccessfulWindowsAlternate ==
  /\ [](\A t \in Loops : InApiWindow(t) => loc[t].client_id = StatusOf.nextClientId)
  /\ [][\A t \in Loops :
          (variant = "dual" /\ pc[t] = "r_read" /\ pc'[t] = "r_query")
             => loc'[t].client_id = StatusOf.nextClientId]_vars
  /\ [][(variant = "dual" /\ \E c \in Callers : pc[c] = "start_query" /\ pc'[c] = "start_ret")
          => next_client_id' = 1]_vars
  /\ [][\A t \in Loops :
          (InApiWindow(t) /\ pc[t] = "r_commit" /\ pc'[t] = "l_after")
             => /\ next_client_id' \in {1, 2}
                /\ next_client_id' # loc[t].client_id]_vars
  /\ [][(next_client_id' # next_client_id)
          => \/ \E c \in Callers : pc[c] = "start_query" /\ pc'[c] = "start_ret"
             \/ \E t \in Loops : InApiWindow(t) /\ pc[t] = "r_commit"
                                   /\ pc'[t] = "l_after"]_vars

\* the dual job with client 1 or client 2 lacking its API key
DualKeyMissing == variant = "dual" /\ (~api_key[1] \/ ~api_key[2])

\* C12: with credential 1 or 2 not configured, start() of the dual job
\* returns an error result with running = false that names the missing
\* credential, credential 1 when both are missing; the call changes no state
\* field and launches no loop, so the job is never running, its state stays
\* "idle", every field keeps its initial value and no loop thread exists.
C12_MissingKeyStartFails ==
  /\ [](DualKeyMissing
          => /\ ~running /\ ~paused /\ StateLabel = "idle"
             /\ thread = None /\ \A t \in Loops : pc[t] = "dead"
             /\ max_id = 0 /\ completed_count = 0 /\ current_start_id = 0
             /\ batch_size = DefaultBatchSize /\ interval_sec = DefaultInterval
             /\ last_processed_range = NoRange /\ next_run_ts = None
             /\ next_client_id = 1 /\ last_error = None
             /\ ~StartErrorResult.running /\ ~StartErrorResult.paused)
  /\ [][\A c \in Callers :
          (DualKeyMissing /\ start_error'[c] # start_error[c])
             => /\ start_error'[c] = (IF ~api_key[1] THEN "STEAMDT_API_KEY_1"
                                      ELSE "STEAMDT_API_KEY_2")
                /\ UNCHANGED <<jobState, thread, stop_event, lock, pc, loc>>]_vars
  /\ [][(~DualKeyMissing) => start_error' = start_error]_vars

\* C12 witness: both keys are missing and start() has returned the error that
\* names credential 1.
C12_Witness ==
  /\ variant = "dual" /\ ~api_key[1] /\ ~api_key[2]
  /\ start_error["c1"] = "STEAMDT_API_KEY_1"

\* C13: start() of the single job checks that its client has an API key:
\* without the key the job never becomes running and no loop is launched.
C13_SingleStartValidatesKey ==
  (variant = "single" /\ ~api_key[1])
     => (~running /\ thread = None /\ \A t \in Loops : pc[t] = "dead")

\* C14: status() of the single job has no error field.  In the dual job
\* lastError is last_error; a failing window sets it to the failure's
\* message; and a recorded message goes away only when a window completes
\* without failure (by its guard, or by either commit) or when start() resets
\* the job.
C14_LastErrorUntilSuccess ==
  /\ [](variant = "single" => ("lastError" \notin DOMAIN StatusOf /\ last_error = None))
  /\ [](variant = "dual" => StatusOf.lastError = last_error)
  /\ [][\A t \in Loops :
          (variant = "dual" /\ pc[t] \in IOStates /\ pc'[t] = "l_after")
             => last_error' = "error"]_vars
  /\ [][(variant = "dual" /\ last_error = "error" /\ last_error' # "error")
          => \/ \E c \in Callers : pc[c] = "start_query" /\ pc'[c] = "start_ret"
             \/ \E t \in Loops : /\ pc[t] \in {"r_read", "r_commit_empty", "r_commit"}
                                   /\ pc'[t] = "l_after"]_vars

\* C14 witness: the dual job sleeps between two windows with the message of
\* the failed window in lastError.
C14_Witness ==
  /\ variant = "dual" /\ StatusOf.lastError = "error"
  /\ \E t \in Loops : pc[t] = "delay"

\* C15: with an empty catalog the status shows percent = 0 at all times; the
\* loop that start() launches never queries a window, never calls the
\* external client, never writes a price row and never reaches the delay
\* before a second iteration; and a running job becomes not running.
C15_EmptyCatalogAutoStops ==
  /\ [](CatalogMaxId = 0
          => /\ max_id = 0 /\ StatusOf.percent = 0
             /\ \A t \in Loops : ~InWindow(t) /\ pc[t] # "delay")
  /\ ((CatalogMaxId = 0 /\ running) ~> ~running)

\* C15 witness: with an empty catalog the loop has stopped the job itself
\* after its first completion check.
C15_Witness ==
  /\ CatalogMaxId = 0 /\ ~running /\ next_run_ts = None
  /\ \E t \in Loops : pc[t] = "stop_ret"

\* the step that ends the lock block of a start() on a job that was not running
StartCompletes(c) == pc[c] = "start_query" /\ pc'[c] = "start_ret"

\* what start() sets apart from completed_count; loc[c].start_id is
\* start_id, or 1 when start_id is omitted
StartResetsRest(c) ==
  /\ running' /\ ~paused'
  /\ current_start_id' = loc[c].start_id
  /\ last_processed_range' = NoRange /\ next_run_ts' = None
  /\ variant = "dual" => (next_client_id' = 1 /\ last_error' = None)

\* C16 as stated: start() on an idle job sets running = true, paused = false,
\* the cursor to start_id (1 when omitted), completed_count to start_id - 1,
\* last_processed_range and next_run_ts to none and, in the dual job, the
\* pointer to credential 1 and last_error to none.
C16_StartResetsState ==
  [][\A c \in Callers :
       StartCompletes(c)
          => (StartResetsRest(c) /\ completed_count' = loc[c].start_id - 1)]_vars

\* C16 amended: as stated, except that completed_count becomes start_id - 1
\* only for start_id >= 1 and becomes 0 for a start_id below 1.
C16_StartResetsStateClamped ==
  [][\A c \in Callers :
       StartCompletes(c)
          => /\ StartResetsRest(c)
             /\ completed_count' = (IF loc[c].start_id >= 1
                                    THEN loc[c].start_id - 1 ELSE 0)]_vars

\* C16 witness: a start() with a negative start_id has launched the loop of
\* the dual job: the cursor is the negative id and completed_count is 0.
C16_Witness ==
  /\ variant = "dual" /\ pc["c1"] = "start_ret" /\ running
  /\ current_start_id < 0 /\ completed_count = 0
  /\ max_id > 0 /\ thread # None

\* A call that begins and ends in one step leaves every thread where it was:
\* pause(), resume(), status(), and a start() refused for a missing key.
OneStepCall == pc' = pc

\* C17: pause() and resume() change nothing but paused: a one-step call
\* leaves every other state field, the thread, the stop event and the lock
\* as they are; paused goes from false to true only on a running job and from
\* true to false only on a running job; on a job that is not running, or that
\* is already in the state asked for, the call changes nothing.
C17_PauseResumeFrame ==
  /\ [][OneStepCall
          => UNCHANGED <<running, max_id, completed_count, current_start_id,
                         batch_size, interval_sec, last_processed_range,
                         next_run_ts, next_client_id, last_error, thread,
                         stop_event, lock, loc>>]_vars
  /\ [][(OneStepCall /\ paused' # paused) => (running /\ lock = NoThread)]_vars
  /\ [][(paused' /\ ~paused) => OneStepCall]_vars

\* C17 witness: pause() has paused the running job and the loop waits
\* between two windows.
C17_Witness ==
  /\ running /\ paused /\ pc["c1"] = "idle"
  /\ \E t \in Loops : pc[t] = "pause_wait" /\ last_processed_range # NoRange

\* C18: between two start() calls the cursor never decreases: every step
\* other than the cursor assignment of a start() leaves current_start_id
\* where it is or moves it forward.
C18_CursorMonotonic ==
  [][(\A c \in Callers : ~StartCompletes(c))
       => current_start_id' >= current_start_id]_vars

\* C19: the normaliser is total: whatever the response, its normalisation
\* never raises.
C19_NormalizerTotal == outcome # "raised"

\* C20: an update time u becomes u * 1000 when u < 10^12 and stays u
\* otherwise; 1700000000 becomes 1700000000000 and 1700000000000 stays; and
\* the startup migration, which applies the same rule to the stored rows,
\* changes no row that the normaliser wrote.
C20_TimestampNormalization ==
  /\ [](\A u \in TimeInputs :
          u.type = "num"
             => NormalizeTime(u.val) = (IF Len(u.val) < Len(TenToTwelve)
                                        THEN TimesThousand(u.val) ELSE u.val))
  /\ [](/\ NormalizeTime(<<1, 700, 0, 0>>) = <<1, 700, 0, 0, 0>>
        /\ NormalizeTime(<<1, 700, 0, 0, 0>>) = <<1, 700, 0, 0, 0>>)
  /\ [][(outcome = "committed" /\ outcome' = "committed") => prices' = prices]_vars

\* C21: canonical_platform_name of its own result is that result, and a
\* spelling of the alias C5 or HALO, in any letter case and with blanks around
\* it, gives what the canonical name C5GAME or HALOSKINS gives.
C21_CanonicalIdempotent ==
  /\ Len(call_ret) = 2 => call_ret[2] = call_ret[1]
  /\ Len(call_ret) >= 1 /\ call_arg \in {JStr(w) : w \in Spellings(AliasC5)}
       => call_ret[1] = canonical_platform_name(JStr(Upper(NameC5Game)))
  /\ Len(call_ret) >= 1 /\ call_arg \in {JStr(w) : w \in Spellings(AliasHalo)}
       => call_ret[1] = canonical_platform_name(JStr(Upper(NameHaloSkins)))

\* the function was called on " halo" in mixed case and then on its result
C21_Witness ==
  /\ call_arg = JStr(<<" ", "h", "A", "l", "O">>)
  /\ call_ret = <<Upper(NameHaloSkins), Upper(NameHaloSkins)>>

\* C22: the percent of status() is 0 when max_id is 0, and otherwise the
\* integer part of 100 * completed_count / max_id, so that it is 100 exactly
\* when completed_count = max_id.
C22_PercentIsIntegerPart ==
  call_ret # <<>> =>
    LET completed == call_arg.completed_count
        maxid == call_arg.max_id
    IN IF maxid = 0 THEN call_ret[1] = 0
       ELSE /\ call_ret[1] = (100 * completed) \div maxid
            /\ call_ret[1] = 100 <=> completed = maxid

\* C23: in both variants a window without catalog entries, or without an
\* entry that has a name, is recorded as processed: the loop goes from the
\* catalog query to the commit without an external call and a write, and the
\* commit sets the cursor to end_id + 1, completed_count to end_id and
\* last_processed_range to (start_id, end_id).
C23_EmptyWindowAdvances ==
  [][\A t \in Loops :
       /\ (RunQuery(t) /\ NamesIn(loc[t].start_id, loc[t].end_id) = {})
            => pc'[t] = "r_commit_empty"
       /\ RunCommitEmpty(t)
            => /\ current_start_id' = loc[t].end_id + 1
               /\ completed_count' = loc[t].end_id
               /\ last_processed_range' = <<loc[t].start_id, loc[t].end_id>>
               /\ prices' = prices]_vars

\* C24: no I/O happens while the lock is held: a thread that is inside a
\* catalog read, an external call or a store write does not hold the lock.
C24_NoIOUnderLock ==
  \A th \in Threads : pc[th] \in IOStates \cup {"start_query"} => lock # th

\* C25: every read and write of scheduler state is made by a thread that
\* holds the lock: the step of the loop that reads `paused` is not taken
\* while another thread is inside a lock block.
C25_StateAccessUnderLock ==
  [][\A t \in Loops : LoopPauseWait(t) => lock \in {NoThread, t}]_vars

\* C26: the rows of one window are committed as one unit: when the write
\* block fails, by a bad entry or by a database error in a lookup or in the
\* commit, the failure leaves _run_one_range and the price store has none of
\* the window's rows; when it succeeds the store has all of them.
C26_RowsCommittedAtomically ==
  [][(outcome = "pending" /\ outcome' # "pending")
       => LET data_list == DataList(resp)
          IN /\ (\E i \in 1..Len(data_list) : ItemRaises(data_list[i]))
                  => outcome' = "raised"
             /\ outcome' \in {"raised", "failed"} => prices' = prices
             /\ outcome' = "committed" => prices' = prices \o RowsOf(data_list)]_vars

\* a bad entry after a good one raised, and the good entry's row is not stored
C26_Witness ==
  /\ resp = JList(<<GoodItem, JNum(<<7>>)>>)
  /\ RowsBeforeRaise(DataList(resp)) # <<>>
  /\ outcome = "raised" /\ prices = <<>>

\* C27: running goes from true to false only in the last block of stop(),
\* and when it is the loop that runs that block (the auto-stop), then
\* completed_count >= max_id.
C27_AutoStopOnlyWhenDone ==
  [][(running /\ ~running')
       => /\ \E th \in Threads : StopReset(th)
          /\ \A t \in Loops : StopReset(t) => completed_count >= max_id]_vars

\* C28: from the moment stop() has set the stop event until the next start()
\* clears it, the loop begins no window: only a window that was in flight
\* already is still in flight in the next state.
C28_StopIsCooperative ==
  [][(stop_event /\ stop_event')
       => \A t \in Loops : InWindow(t)' => InWindow(t)]_vars

\* C28, amended: while the stop event is set the loop passes no stop check:
\* it makes no call of _run_one_range, and only the call that it had made
\* already (its stop check passed before the event was set) still reads the
\* cursor, commits its rows and advances the cursor.
C28_StopObservedAtCheck ==
  [][(stop_event /\ stop_event')
       => \A t \in Loops : (pc'[t] = "r_read" \/ InWindow(t)')
                              => (pc[t] = "r_read" \/ InWindow(t))]_vars

\* the stop event is set and a window that was begun is about to commit
C28_Witness ==
  /\ stop_event /\ running
  /\ \E c \in Callers : pc[c] \in {"stop_get", "stop_join"}
  /\ \E t \in Loops : pc[t] = "r_commit"

\* C29: max_id is a snapshot that only start() writes; a window never reaches
\* above it, so that items created above max_id during a run are not visited
\* by that run; and the loop stops itself with completed_count at max_id.
C29_MaxIdSnapshot ==
  /\ [][max_id' # max_id => \E c \in Callers : StartLaunch(c)]_vars
  /\ [](\A t \in Loops : InWindow(t) => loc[t].end_id <= max_id)
  /\ [](last_processed_range # NoRange => last_processed_range[2] <= max_id)
  /\ [](\A t \in Loops : pc[t] \in {"auto_stop", "stop_get", "stop_join", "stop_reset"}
                           => completed_count = max_id)

\* the loop has stopped itself at max_id 1, after an item with id 2 was created
C29_Witness ==
  /\ max_id = 1 /\ completed_count = 1 /\ last_processed_range = <<1, 1>>
  /\ catalog[2] = "named"
  /\ \E t \in Loops : pc[t] = "stop_ret"
  /\ ~running

\* C30: each numeric field of a row (sell price, bid price, sell count, bid
\* count, update time) has the value under the first of its keys, in the
\* order they are tried, that the platform entry has; so a 0 under that key
\* is stored as 0 (for the update time: as 0 * 1000), and is neither
\* replaced by the value of a later key nor stored as absent.
C30_FirstPresentKeyWins ==
  call_ret # <<>> =>
    \A f \in DOMAIN FieldKeys :
       LET keys == FieldKeys[f]
           present == {i \in 1..Len(keys) : keys[i] \in DOMAIN call_arg.val}
       IN present # {} =>
            LET first == CHOOSE i \in present : \A j \in present : i <= j
                v == call_arg.val[keys[first]]
            IN call_ret[1][f] = IF f = "update_time" THEN JNum(NormalizeTime(v.val))
                                ELSE v

\* C31: after any sequence of catalog refreshes, imports and item creations,
\* no two listings of one item have the same canonical platform name, and the
\* writer's lookup by (item, canonical name) finds a row for every listing the
\* item has.
C31_OneListingPerCanonicalName ==
  \A p \in platforms :
    /\ \A q \in platforms :
         (p[1] = q[1]
          /\ canonical_platform_name(JStr(p[2])) = canonical_platform_name(JStr(q[2])))
         => p = q
    /\ PlatformLookup(p[1], canonical_platform_name(JStr(p[2])))

\* C32: in every state that has the lock free, if last_processed_range is
\* (s, e) then completed_count is e and current_start_id is e + 1, with
\* 1 <= s <= e <= max_id and e - s + 1 <= batch_size; and a step that changes
\* one of the three fields assigns all three: the range, its end and the id
\* after its end, or no range, a cursor and the count of the ids before it.
C32_RangeCursorInvariant ==
  /\ [](lock = NoThread /\ last_processed_range # NoRange =>
          LET s == last_processed_range[1]
              e == last_processed_range[2]
          IN /\ completed_count = e /\ current_start_id = e + 1
             /\ 1 <= s /\ s <= e /\ e <= max_id
             /\ e - s + 1 <= batch_size)
  /\ [][<<last_processed_range, completed_count, current_start_id>>'
          # <<last_processed_range, completed_count, current_start_id>>
        => \/ /\ last_processed_range' # NoRange
              /\ completed_count' = last_processed_range'[2]
              /\ current_start_id' = last_processed_range'[2] + 1
           \/ /\ last_processed_range' = NoRange
              /\ completed_count' = Max(0, current_start_id' - 1)]_vars

\* C33: for any start_id given to start(), a job whose windows never fail and
\* that is neither paused nor stopped by a caller stops itself: a running job
\* becomes not running.
C33_AnyStartAutoStops == running ~> ~running

\* C34: for any start_id given to start(), whenever status() can be called
\* (the lock is free) its percent lies in 0..100, and completed_count is at
\* most max_id when max_id > 0.
C34_PercentInRange ==
  lock = NoThread =>
    /\ StatusOf.percent \in 0..100
    /\ max_id > 0 => completed_count <= max_id

\* C35: whenever the job is not running its next-run timestamp is None, so
\* the status of an idle job has no nextRunSeconds; also after a stop() whose
\* join timed out while a window was in flight.
C35_IdleHasNoNextRun ==
  ~running => next_run_ts = None /\ ~StatusOf.nextRunSet

\* C36: in every state paused implies running, whatever start, pause, resume
\* and stop calls are interleaved with the loop and its auto-stop: the state
\* label is "paused" only for a job that is running.
C36_PausedImpliesRunning ==
  /\ paused => running
  /\ StateLabel = "paused" => running

\* C36 witness: a stop(), the caller's or the loop's own, is about to reset a
\* job that is paused.
C36_Witness ==
  /\ paused /\ running
  /\ \E c \in Callers : pc[c] = "stop_reset"
  /\ \E t \in Loops : pc[t] = "stop_reset"

C38_StopFrame ==
  [][(\E th \in Threads :
        /\ pc'[th] # pc[th]
        /\ pc'[th] \in {"stop_get", "stop_join", "stop_reset", "stop_ret"}
           \/ pc[th] = "stop_ret")
      => /\ UNCHANGED <<max_id, current_start_id, completed_count,
                        last_processed_range, batch_size, interval_sec,
                        next_client_id, last_error>>
         /\ LET before == StatusOf
                after == StatusOf'
            IN \A f \in {"maxId", "completedCount", "percent", "currentStartId",
                          "currentEndIdNext", "lastProcessedRange", "intervalSec",
                          "batchSize"}
                         \cup (IF variant = "dual" THEN {"nextClientId", "lastError"}
                               ELSE {}) :
                  after[f] = before[f]]_vars

\* C38 witness: a caller's stop() has reset a job that is part of the way
\* through the catalog.
C38_Witness ==
  /\ pc["c1"] = "stop_ret" /\ ~running
  /\ last_processed_range # NoRange
  /\ 0 < completed_count /\ completed_count < max_id

====
